---- MODULE Spec2Model ----
(***************************************************************************)
(* geopib: per-municipality mean annual temperature from monthly rasters.  *)
(*                                                                         *)
(*   index.py               zonal statistics, scale, plausibility filter,  *)
(*                          nan-aware annual mean, CSV export              *)
(*   stats.py               rankings, bins and IQR outliers over the CSV   *)
(*   clip_rasters_brasil.py clipping of the world rasters to the boundary  *)
(*                                                                         *)
(* Floating point numbers are modelled as exact rationals n/d (d > 0, in   *)
(* lowest terms) tagged with their kind: "fin", "nan", "inf", "ninf", and  *)
(* "none" for Python's None.  Rounding error of binary floats is not       *)
(* modelled.  Strings are sequences of one-character strings.              *)
(***************************************************************************)
EXTENDS Integers, Sequences, FiniteSets, TLC

VARIABLES
    \* ---- index.py ----
    pc,               \* position in the script
    args,             \* parsed command line: mes, limite, escala
    disk,             \* raster files matching RASTER_GLOB: path -> content kind
    municipios,       \* the GeoDataFrame rows (after --limite)
    rasters_all,      \* sorted(glob.glob(RASTER_GLOB))
    rasters,          \* the rasters selected for the run
    scale_to_c,       \* the scale variable of the monthly loop
    stats_mensais,    \* one row of filtered values per processed month
    temp_media_anual, \* np.nanmean(stats_mensais, axis=0)
    output,           \* the CSV file OUTPUT
    err,              \* the exception that ended the run
    opened,           \* number of rasterio.open calls made so far
    zs_log,           \* the zonal_stats result (raw means) of each month
    scale_log,        \* the value of scale_to_c multiplied into each month
    \* ---- _detect_scale_from_array on its own ----
    sd,
    \* ---- stats.py ----
    st,
    \* ---- clip_rasters_brasil.py ----
    cl

vars == <<pc, args, disk, municipios, rasters_all, rasters, scale_to_c,
          stats_mensais, temp_media_anual, output, err, opened, zs_log,
          scale_log, sd, st, cl>>

indexVars == <<pc, args, disk, municipios, rasters_all, rasters, scale_to_c,
               stats_mensais, temp_media_anual, output, err, opened, zs_log,
               scale_log>>

(***************************************************************************)
(* Bounds of the model.                                                    *)
(***************************************************************************)
\* municipalities in the shapefile
MaxMun == 4
\* the raster contents on disk repeat with this period along the sorted list
PatLen == 2

(***************************************************************************)
(* Numbers.                                                                *)
(***************************************************************************)
Abs(x) == IF x < 0 THEN -x ELSE x

RECURSIVE Gcd(_, _)
Gcd(a, b) == IF b = 0 THEN a ELSE Gcd(b, a % b)

\* the float n/d, d # 0, in lowest terms with a positive denominator
Q(n, d) ==
    LET g == Gcd(Abs(n), Abs(d))
        s == IF d < 0 THEN -1 ELSE 1
    IN  [k |-> "fin", n |-> (s * n) \div g, d |-> (s * d) \div g]

Fin(x) == [k |-> "fin", n |-> x, d |-> 1]
NaN == [k |-> "nan", n |-> 0, d |-> 1]
PosInf == [k |-> "inf", n |-> 0, d |-> 1]
NegInf == [k |-> "ninf", n |-> 0, d |-> 1]
None == [k |-> "none", n |-> 0, d |-> 1]

\* np.isfinite
IsFinite(x) == x.k = "fin"
\* np.isnan
IsNan(x) == x.k = "nan"

\* a < b, a + b, a * b and a / m on finite floats
QLess(a, b) == a.n * b.d < b.n * a.d
QAdd(a, b) == Q(a.n * b.d + b.n * a.d, a.d * b.d)
QMul(a, b) == Q(a.n * b.n, a.d * b.d)
QDivInt(a, m) == Q(a.n, a.d * m)

\* IEEE comparison x != y: a NaN differs from everything, itself included
FloatNeq(x, y) == IsNan(x) \/ IsNan(y) \/ x # y

\* IEEE comparisons x < y and x > y on floats that may be NaN or infinite
FloatLess(x, y) ==
    /\ ~IsNan(x) /\ ~IsNan(y)
    /\ \/ x.k = "ninf" /\ y.k # "ninf"
       \/ y.k = "inf" /\ x.k # "inf"
       \/ IsFinite(x) /\ IsFinite(y) /\ QLess(x, y)

(***************************************************************************)
(* index.py: configuration.                                                *)
(***************************************************************************)
MIN_TEMP_C == Fin(-20)
MAX_TEMP_C == Fin(50)

\* the threshold of the scale heuristic
ScaleThreshold == Fin(80)
\* the two values of --escala, and of the heuristic
ScaleCelsius == Q(1, 1)
ScaleTenths == Q(1, 10)
\* rasters of a full year
FullYear == 12

(***************************************************************************)
(* Strings.                                                                *)
(***************************************************************************)
\* the characters that occur in raster paths, in code point order
Alphabet == <<".", "/", "0", "1", "2", "3", "4", "5", "6", "7", "8", "9",
              "V", "_", "a", "b", "c", "e", "f", "g", "i", "l", "r", "s",
              "t", "v", "w">>

Ord(c) == CHOOSE i \in 1..Len(Alphabet) : Alphabet[i] = c

\* str.lower
LowerChar(c) == IF c = "V" THEN "v" ELSE c
Lower(s) == [i \in 1..Len(s) |-> LowerChar(s[i])]

\* s < t in Python's string order: decided by the first place that differs
StrLess(s, t) ==
    LET n == IF Len(s) < Len(t) THEN Len(s) ELSE Len(t)
        diff == {i \in 1..n : s[i] # t[i]}
    IN  IF diff = {} THEN Len(s) < Len(t)
        ELSE LET i == CHOOSE i \in diff : \A j \in diff : i <= j
             IN  Ord(s[i]) < Ord(t[i])

\* sub in s
Contains(s, sub) ==
    \E i \in 1..(Len(s) - Len(sub) + 1) : SubSeq(s, i, i + Len(sub) - 1) = sub

\* s.endswith(suf)
EndsWith(s, suf) ==
    /\ Len(s) >= Len(suf)
    /\ SubSeq(s, Len(s) - Len(suf) + 1, Len(s)) = suf

\* os.path.basename
Basename(path) ==
    LET slashes == {i \in 1..Len(path) : path[i] = "/"}
    IN  IF slashes = {} THEN path
        ELSE SubSeq(path, (CHOOSE i \in slashes : \A j \in slashes : j <= i) + 1,
                    Len(path))

Digit(d) == <<"0", "1", "2", "3", "4", "5", "6", "7", "8", "9">>[d + 1]
\* f"{month:02d}" for 0 <= month <= 99
Fmt02d(month) == <<Digit(month \div 10), Digit(month % 10)>>

\* RASTER_GLOB = "raster_brasil/wc2.1_30s_tavg_*.tif": the path of the file
\* whose name has `stem` in the place of the star
GlobPrefix == <<"r", "a", "s", "t", "e", "r", "_", "b", "r", "a", "s", "i", "l",
                "/", "w", "c", "2", ".", "1", "_", "3", "0", "s", "_", "t", "a",
                "v", "g", "_">>
TifExt == <<".", "t", "i", "f">>
PathOf(stem) == GlobPrefix \o stem \o TifExt

\* sorted(): the paths in ascending string order (a path's place is the
\* number of paths below it)
SortedPaths(S) ==
    LET rank == [p \in S |-> Cardinality({q \in S : StrLess(q, p)})]
    IN  [i \in 1..Cardinality(S) |-> CHOOSE p \in S : rank[p] = i - 1]

(***************************************************************************)
(* index.py: inputs.                                                       *)
(***************************************************************************)
\* the nodata sentinel of the raster files
NoDataCell == Fin(-9999)

\* The raster contents found on disk.  Every grid has three cells.
\*   1  degrees Celsius; cells exactly at MIN_TEMP_C and at MAX_TEMP_C
\*   2  tenths of a degree; the same temperatures once scaled
\*   3  no valid cell at all
\*   4  tenths of a degree, no nodata value, a NaN cell and an implausible one
RasterCatalogue ==
    << [data |-> <<Fin(-20), Fin(30), Fin(50)>>, nodata |-> NoDataCell],
       [data |-> <<Fin(-200), Fin(310), Fin(500)>>, nodata |-> NoDataCell],
       [data |-> <<NoDataCell, NoDataCell, NoDataCell>>, nodata |-> NoDataCell],
       [data |-> <<NaN, Fin(620), Fin(90)>>, nodata |-> None] >>

\* the grid cells whose centre lies inside the polygon of municipality j;
\* every fourth polygon is too small to hold a cell centre
ZoneOf(j) == CASE j % 4 = 1 -> {1, 2}
               [] j % 4 = 2 -> {3}
               [] j % 4 = 3 -> {1}
               [] OTHER -> {}

\* gpd.read_file(SHAPEFILE): the rows of the shapefile, in file order
Shapefile == [j \in 1..MaxMun |-> [CD_MUN |-> 1000 + j, cells |-> ZoneOf(j)]]

\* the month stems 01 .. 12
StdStems == {Fmt02d(m) : m \in 1..FullYear}

\* The sets of file names (the part matched by the star of RASTER_GLOB) found
\* on disk: none, a full year, a year without July, a year with a second
\* July file, and a directory whose names follow no single convention.
NameSets ==
    << {},
       StdStems,
       StdStems \ {<<"0", "7">>},
       StdStems \cup {<<"0", "7", "_", "V", "2">>},
       {<<"0", "3", "_", "0", "7">>, <<"0", "7">>, <<"b", "_", "0", "1">>} >>

PosIn(seq, x) == CHOOSE i \in 1..Len(seq) : seq[i] = x

\* a directory with these names, the content kinds following `pat`
\* periodically along the sorted list
DiskOf(names, pat) ==
    LET paths == {PathOf(s) : s \in names}
        srt == SortedPaths(paths)
    IN  [p \in paths |-> pat[((PosIn(srt, p) - 1) % Len(pat)) + 1]]

Disks ==
    {DiskOf(NameSets[i], pat) :
        i \in 1..Len(NameSets),
        pat \in [1..PatLen -> 1..Len(RasterCatalogue)]}

\* argparse: --mes in 1..12, --limite any integer, --escala 1.0 or 0.1
MonthsTried == {1, 2, 3, 7, 12}
MesChoices == {None} \cup {Fin(m) : m \in MonthsTried}
LimiteChoices == {None, Fin(0), Fin(MaxMun - 1)}
EscalaChoices == {None, ScaleCelsius, ScaleTenths}

(***************************************************************************)
(* index.py: functions.                                                    *)
(***************************************************************************)
SeqMax(S) == CHOOSE x \in S : \A y \in S : ~QLess(x, y)

\* the heuristic with >= in the place of >: a maximum of exactly 80 taken
\* as tenths of a degree
_detect_scale_at_threshold(data, nodata) ==
    LET valid == {i \in 1..Len(data) :
                    /\ IsFinite(data[i])
                    /\ nodata = None \/ FloatNeq(data[i], nodata)}
    IN  IF valid = {} THEN ScaleCelsius
        ELSE LET vmax == SeqMax({data[i] : i \in valid})
             IN  IF ~QLess(vmax, ScaleThreshold) THEN ScaleTenths
                 ELSE ScaleCelsius

_detect_scale_from_array(data, nodata) ==
    LET valid == {i \in 1..Len(data) :
                    /\ IsFinite(data[i])
                    /\ nodata = None \/ FloatNeq(data[i], nodata)}
    IN  IF valid = {} THEN ScaleCelsius
        ELSE LET vmax == SeqMax({data[i] : i \in valid})
             IN  IF QLess(ScaleThreshold, vmax) THEN ScaleTenths
                 ELSE ScaleCelsius

\* the first of the places `hits` of a list, 0 when there is none: where a
\* for loop that returns on its first match stops
FirstIndex(hits) ==
    IF hits = {} THEN 0 ELSE CHOOSE i \in hits : \A j \in hits : i <= j

\* the selection with the suffix rule tried before the token rule
_pick_suffix_first(paths, month) ==
    LET mm == Fmt02d(month)
        token == <<"t", "a", "v", "g", "_">> \o mm
        suffix == <<"_">> \o mm \o TifExt
        HasToken(path) == Contains(Basename(path), token)
        HasSuffix(path) == EndsWith(Lower(path), suffix)
        byToken == FirstIndex({i \in 1..Len(paths) : HasToken(paths[i])})
        bySuffix == FirstIndex({i \in 1..Len(paths) : HasSuffix(paths[i])})
    IN  IF bySuffix # 0 THEN [raised |-> FALSE, value |-> <<paths[bySuffix]>>]
        ELSE IF byToken # 0 THEN [raised |-> FALSE, value |-> <<paths[byToken]>>]
        ELSE IF 1 <= month /\ month <= Len(paths)
             THEN [raised |-> FALSE, value |-> <<paths[month]>>]
        ELSE [raised |-> TRUE, value |-> <<>>]

_pick_raster_for_month(paths, month) ==
    LET mm == Fmt02d(month)
        token == <<"t", "a", "v", "g", "_">> \o mm
        suffix == <<"_">> \o mm \o TifExt
        HasToken(path) == Contains(Basename(path), token)
        HasSuffix(path) == EndsWith(Lower(path), suffix)
        byToken == FirstIndex({i \in 1..Len(paths) : HasToken(paths[i])})
        bySuffix == FirstIndex({i \in 1..Len(paths) : HasSuffix(paths[i])})
    IN  IF byToken # 0 THEN [raised |-> FALSE, value |-> <<paths[byToken]>>]
        ELSE IF bySuffix # 0 THEN [raised |-> FALSE, value |-> <<paths[bySuffix]>>]
        ELSE IF 1 <= month /\ month <= Len(paths)
             THEN [raised |-> FALSE, value |-> <<paths[month]>>]
        ELSE [raised |-> TRUE, value |-> <<>>]

\* a count check that lets fewer than twelve rasters through
FullYearCountAtMost(rs) == Len(rs) <= FullYear

\* the check of the full-year mode (no --mes)
FullYearCountOk(rs) == Len(rs) = FullYear

RECURSIVE QSum(_, _)
QSum(f, S) ==
    IF S = {} THEN Fin(0)
    ELSE LET i == CHOOSE i \in S : TRUE IN QAdd(f[i], QSum(f, S \ {i}))

\* rasterstats.zonal_stats(..., stats="mean"): per polygon, the mean of the
\* cells inside it that are neither nodata nor NaN; None when there is none.
\* (With nodata=None the library masks its default sentinel -999, a value
\* no raster of the catalogue holds.)
zonal_stats(polys, data, nodata) ==
    [j \in 1..Len(polys) |->
        LET used == {c \in polys[j].cells :
                        /\ ~IsNan(data[c])
                        /\ nodata = None \/ FloatNeq(data[c], nodata)}
        IN  IF used = {} THEN None
            ELSE QDivInt(QSum(data, used), Cardinality(used))]

\* the filter with exclusive bounds: -20.0 and 50.0 themselves rejected
PlausibleExclusive(v_c) ==
    IF ~FloatLess(MIN_TEMP_C, v_c) \/ ~FloatLess(v_c, MAX_TEMP_C) THEN NaN ELSE v_c

\* lines 183-186: the plausibility filter on a scaled value
Plausible(v_c) ==
    IF FloatLess(v_c, MIN_TEMP_C) \/ FloatLess(MAX_TEMP_C, v_c) THEN NaN ELSE v_c

\* the row of one month without the plausibility filter
LinhaUnfiltered(zs, scale) ==
    [j \in 1..Len(zs) |-> IF zs[j] = None THEN NaN ELSE QMul(zs[j], scale)]

\* lines 173-186: the row of one month
Linha(zs, scale) ==
    [j \in 1..Len(zs) |->
        IF zs[j] = None THEN NaN ELSE Plausible(QMul(zs[j], scale))]

\* np.mean over the column with the missing months taken as zeros: what
\* np.nan_to_num followed by np.mean would give
NanMeanZeroFill(col) ==
    LET present == {i \in 1..Len(col) : ~IsNan(col[i])}
    IN  IF present = {} THEN NaN
        ELSE QDivInt(QSum(col, present), Len(col))

\* np.nanmean of one column: the mean of the values that are not NaN, NaN
\* when there is none
NanMean(col) ==
    LET present == {i \in 1..Len(col) : ~IsNan(col[i])}
    IN  IF present = {} THEN NaN
        ELSE QDivInt(QSum(col, present), Cardinality(present))

\* np.nanmean(table, axis=0)
NanMeanAxis0(table, ncols) ==
    [j \in 1..ncols |-> NanMean([i \in 1..Len(table) |-> table[i][j]])]

(***************************************************************************)
(* index.py: the script, top to bottom.                                    *)
(***************************************************************************)
NoOutput == [written |-> FALSE, rows |-> <<>>]

\* the other programs, not running
sdIdle == [phase |-> "idle"]
stIdle == [phase |-> "idle"]
clIdle == [phase |-> "idle"]

InitIndex ==
    /\ pc = "municipios"
    /\ args \in [mes : MesChoices, limite : LimiteChoices, escala : EscalaChoices]
    /\ disk \in Disks
    /\ municipios = <<>>
    /\ rasters_all = <<>>
    /\ rasters = <<>>
    /\ scale_to_c = None
    /\ stats_mensais = <<>>
    /\ temp_media_anual = <<>>
    /\ output = NoOutput
    /\ err = "none"
    /\ opened = 0
    /\ zs_log = <<>>
    /\ scale_log = <<>>
    /\ sd = sdIdle /\ st = stIdle /\ cl = clIdle

Raise(e) == pc' = "error" /\ err' = e

\* lines 93-104: read the shapefile, apply --limite
LoadMunicipios ==
    /\ pc = "municipios"
    /\ IF args.limite # None /\ args.limite.n <= 0
       THEN /\ Raise("limite")
            /\ municipios' = Shapefile
       ELSE /\ pc' = "rasters"
            /\ municipios' = IF args.limite = None THEN Shapefile
                             ELSE SubSeq(Shapefile, 1, args.limite.n)
            /\ UNCHANGED err
    /\ UNCHANGED <<sd, st, cl, args, disk, rasters_all, rasters, scale_to_c, stats_mensais,
                   temp_media_anual, output, opened, zs_log, scale_log>>

\* lines 109-122: list the rasters, select those of the run
SelectRasters ==
    /\ pc = "rasters"
    /\ \E all \in {SortedPaths(DOMAIN disk)} :
         /\ rasters_all' = all
         /\ IF Len(all) = 0
            THEN Raise("no_rasters") /\ UNCHANGED rasters
            ELSE IF args.mes # None
            THEN \E pick \in {_pick_raster_for_month(all, args.mes.n)} :
                   IF pick.raised
                   THEN Raise("no_month") /\ UNCHANGED rasters
                   ELSE pc' = "first" /\ rasters' = pick.value /\ UNCHANGED err
            ELSE /\ rasters' = all
                 /\ IF FullYearCountOk(all)
                    THEN pc' = "first" /\ UNCHANGED err
                    ELSE Raise("count")
    /\ UNCHANGED <<sd, st, cl, args, disk, municipios, scale_to_c,
                   stats_mensais, temp_media_anual, output, opened, zs_log,
                   scale_log>>

\* lines 124-133: print CRS and bounds of the first raster; set up the loop
OpenFirst ==
    /\ pc = "first"
    /\ opened' = opened + 1
    /\ stats_mensais' = <<>>
    /\ scale_to_c' = args.escala
    /\ pc' = "loop"
    /\ UNCHANGED <<sd, st, cl, args, disk, municipios, rasters_all, rasters,
                   temp_media_anual, output, err, zs_log, scale_log>>

\* lines 141-142: the scale in force for a raster
ScaleFor(current, data, nodata) ==
    IF current = None THEN _detect_scale_from_array(data, nodata) ELSE current

\* lines 135-188: one iteration of the monthly loop
ProcessMonth ==
    /\ pc = "loop"
    /\ Len(stats_mensais) < Len(rasters)
    /\ LET raster == rasters[Len(stats_mensais) + 1]
           src == RasterCatalogue[disk[raster]]
           scale == ScaleFor(scale_to_c, src.data, src.nodata)
           zs == zonal_stats(municipios, src.data, src.nodata)
       IN  /\ opened' = opened + 1
           /\ scale_to_c' = scale
           /\ stats_mensais' = Append(stats_mensais, Linha(zs, scale))
           /\ zs_log' = Append(zs_log, zs)
           /\ scale_log' = Append(scale_log, scale)
    /\ UNCHANGED <<sd, st, cl, pc, args, disk, municipios, rasters_all, rasters,
                   temp_media_anual, output, err>>

\* lines 193-199: the annual mean
Aggregate ==
    /\ pc = "loop"
    /\ Len(stats_mensais) = Len(rasters)
    /\ temp_media_anual' = NanMeanAxis0(stats_mensais, Len(municipios))
    /\ pc' = "dataframe"
    /\ UNCHANGED <<sd, st, cl, args, disk, municipios, rasters_all, rasters, scale_to_c,
                   stats_mensais, output, err, opened, zs_log, scale_log>>

\* lines 204-209: the table, zipped positionally
DataFrame(rows, values) ==
    [j \in 1..Len(rows) |->
        [codigo_ibge |-> rows[j].CD_MUN, temp_media_anual |-> values[j]]]

\* lines 204-214: build the table and write it
Save ==
    /\ pc = "dataframe"
    /\ output' = [written |-> TRUE, rows |-> DataFrame(municipios, temp_media_anual)]
    /\ pc' = "done"
    /\ UNCHANGED <<sd, st, cl, args, disk, municipios, rasters_all, rasters, scale_to_c,
                   stats_mensais, temp_media_anual, err, opened, zs_log,
                   scale_log>>

NextIndex ==
    \/ LoadMunicipios
    \/ SelectRasters
    \/ OpenFirst
    \/ ProcessMonth
    \/ Aggregate
    \/ Save

SpecIndex == InitIndex /\ [][NextIndex]_vars

(***************************************************************************)
(* index.py: properties.                                                   *)
(***************************************************************************)
\* the content of the raster processed in month i of the run
SrcOfMonth(i) == RasterCatalogue[disk[rasters[i]]]

\* the run has got past the selection of the rasters without an error
Selected == pc \in {"first", "loop", "dataframe", "done"}

\* C1: without --escala the factor multiplied into month i's zonal means is
\* the one the detector derives from month i's own array and nodata value;
\* with --escala it is that value.
C1_ScaleOfItsOwnMonth ==
    \A i \in 1..Len(scale_log) :
        scale_log[i] = IF args.escala # None THEN args.escala
                       ELSE _detect_scale_from_array(SrcOfMonth(i).data,
                                                     SrcOfMonth(i).nodata)

\* the months whose stored value for municipality j is not missing
PresentMonths(j) == {i \in 1..Len(stats_mensais) : ~IsNan(stats_mensais[i][j])}

\* the twelve monthly values of section 8 of the specification
C2_Scenario ==
    <<Fin(20), Fin(21), Fin(19), Fin(22), Fin(23), NaN, NaN, Fin(24), Fin(25),
      Fin(26), Fin(27), Fin(28)>>

\* C2: once the annual column exists, each municipality's annual value is
\* missing exactly when all its monthly values are missing, and otherwise it
\* times the number of non-missing months equals their sum; no error was
\* raised on the way.  The scenario of the specification gives 23.5.
C2_AnnualIsMeanOfPresent ==
    pc \in {"dataframe", "done"} =>
        /\ err = "none"
        /\ Len(temp_media_anual) = Len(municipios)
        /\ \A j \in 1..Len(municipios) :
            LET present == PresentMonths(j)
                col == [i \in 1..Len(stats_mensais) |-> stats_mensais[i][j]]
            IN  IF present = {} THEN temp_media_anual[j] = NaN
                ELSE /\ IsFinite(temp_media_anual[j])
                     /\ QMul(temp_media_anual[j], Fin(Cardinality(present)))
                            = QSum(col, present)
        /\ NanMean(C2_Scenario) = Q(47, 2)

\* a full year in which a municipality has some months missing and others not
C2_Witness ==
    /\ pc = "done"
    /\ Len(stats_mensais) = FullYear
    /\ \E j \in 1..Len(municipios) :
        /\ PresentMonths(j) # {}
        /\ PresentMonths(j) # 1..Len(stats_mensais)
        /\ IsFinite(temp_media_anual[j])

\* the scaled zonal value of municipality j in month i (None: no valid cell)
ScaledValue(i, j) ==
    IF zs_log[i][j] = None THEN None ELSE QMul(zs_log[i][j], scale_log[i])

\* -20.0 <= v <= 50.0
InRange(v) == -20 * v.d <= v.n /\ v.n <= 50 * v.d

\* C3: every value stored in the monthly table is the scaled zonal value
\* itself when that lies in [-20.0, 50.0], and missing otherwise.
C3_FilterKeepsOrDrops ==
    /\ Len(zs_log) = Len(stats_mensais)
    /\ \A i \in 1..Len(stats_mensais) :
        /\ Len(stats_mensais[i]) = Len(municipios)
        /\ \A j \in 1..Len(municipios) :
            LET v == ScaledValue(i, j)
            IN  stats_mensais[i][j] = IF v # None /\ InRange(v) THEN v ELSE NaN

\* one month holds both boundary values, kept, and a value that was dropped
C3_Witness ==
    \E i \in 1..Len(stats_mensais) :
        /\ \E j \in 1..Len(municipios) : stats_mensais[i][j] = Fin(50)
        /\ \E j \in 1..Len(municipios) : stats_mensais[i][j] = Fin(-20)
        /\ \E i2 \in 1..Len(stats_mensais), j \in 1..Len(municipios) :
            /\ ScaledValue(i2, j) # None
            /\ ~InRange(ScaledValue(i2, j))
            /\ stats_mensais[i2][j] = NaN

\* the number of raster files the glob finds
NFiles == Cardinality(DOMAIN disk)

\* C5: with no raster, or without --mes and a count other than 12, the run
\* is in the error state as soon as the selection step has run, no raster
\* has been opened and no zonal statistics computed; and whenever the run
\* is past the selection, it holds 12 rasters (no --mes) or 1 (--mes).
C5_FailFast ==
    /\ (pc \notin {"municipios", "rasters"}
            /\ (NFiles = 0 \/ (args.mes = None /\ NFiles # 12))) =>
        /\ pc = "error"
        /\ err \in {"limite", IF NFiles = 0 THEN "no_rasters" ELSE "count"}
        /\ opened = 0
        /\ zs_log = <<>>
        /\ stats_mensais = <<>>
        /\ ~output.written
    /\ (Selected \/ opened > 0 \/ zs_log # <<>>) =>
        Len(rasters) = IF args.mes = None THEN 12 ELSE 1

\* a full-year run refused because thirteen rasters were found
C5_Witness ==
    /\ pc = "error" /\ err = "count" /\ NFiles = 13 /\ opened = 0

\* the places of the sorted list whose file name contains tavg_MM
TokenHits(M) ==
    {i \in 1..Len(rasters_all) :
        Contains(Basename(rasters_all[i]), <<"t", "a", "v", "g", "_">> \o Fmt02d(M))}

\* the places of the sorted list whose path ends in _MM.tif
SuffixHits(M) ==
    {i \in 1..Len(rasters_all) :
        EndsWith(rasters_all[i], <<"_">> \o Fmt02d(M) \o <<".", "t", "i", "f">>)}

Least(S) == CHOOSE i \in S : \A j \in S : i <= j

\* C9: with --mes M and a non-empty raster list, after the selection step:
\* the selection is the first raster with the token tavg_MM; failing that
\* the first whose path ends in _MM.tif; failing that the M-th of the list;
\* failing that the run is in the error state with nothing opened.
C9_MonthSelection ==
    (args.mes # None /\ rasters_all # <<>> /\ pc \notin {"municipios", "rasters"}) =>
        LET M == args.mes.n
        IN  IF TokenHits(M) # {}
                THEN Selected /\ rasters = <<rasters_all[Least(TokenHits(M))]>>
            ELSE IF SuffixHits(M) # {}
                THEN Selected /\ rasters = <<rasters_all[Least(SuffixHits(M))]>>
            ELSE IF M <= Len(rasters_all)
                THEN Selected /\ rasters = <<rasters_all[M]>>
            ELSE /\ pc = "error" /\ err = "no_month"
                 /\ opened = 0 /\ zs_log = <<>> /\ ~output.written

\* the token rule chose a raster although an earlier one has the suffix,
\* and it is not the M-th of the list
C9_Witness ==
    /\ args.mes # None /\ Selected
    /\ TokenHits(args.mes.n) # {}
    /\ SuffixHits(args.mes.n) # {}
    /\ Least(TokenHits(args.mes.n)) # Least(SuffixHits(args.mes.n))
    /\ Least(TokenHits(args.mes.n)) # args.mes.n
    /\ rasters = <<rasters_all[Least(TokenHits(args.mes.n))]>>

\* the rows the shapefile contributes to the run
ExpectedRows ==
    IF args.limite = None \/ args.limite.n >= MaxMun THEN MaxMun ELSE args.limite.n

\* C10: the written table has one row per municipality of the (possibly
\* limited) input, in input order, and each annual value is missing or in
\* [-20.0, 50.0].
C10_OutputInvariant ==
    /\ output.written <=> pc = "done"
    /\ pc = "done" =>
        /\ Len(output.rows) = ExpectedRows
        /\ \A j \in 1..Len(output.rows) :
            /\ output.rows[j].codigo_ibge = Shapefile[j].CD_MUN
            /\ output.rows[j].temp_media_anual = temp_media_anual[j]
            /\ \/ output.rows[j].temp_media_anual = NaN
               \/ /\ IsFinite(output.rows[j].temp_media_anual)
                  /\ InRange(output.rows[j].temp_media_anual)

\* a row-limited table written with a missing and a non-missing annual value,
\* from a year in which some monthly value was dropped by the filter
C10_Witness ==
    /\ pc = "done"
    /\ args.limite # None
    /\ Len(output.rows) = MaxMun - 1
    /\ \E j \in 1..Len(output.rows) : IsFinite(output.rows[j].temp_media_anual)
    /\ \E i \in 1..Len(stats_mensais), j \in 1..Len(municipios) :
        ScaledValue(i, j) # None /\ ~InRange(ScaledValue(i, j))

(***************************************************************************)
(* _detect_scale_from_array applied to arbitrary small arrays.             *)
(***************************************************************************)
\* cells of the array
MaxCells == 2

ScaleCells ==
    {Fin(-9999), Fin(75), Fin(80), Q(161, 2), Fin(95), NaN, PosInf, NegInf}
ScaleNodata == {None, Fin(-9999), Fin(95), NaN}

RECURSIVE SeqsUpTo(_, _)
\* the sequences over S of length at most n
SeqsUpTo(S, n) ==
    IF n = 0 THEN {<<>>}
    ELSE LET shorter == SeqsUpTo(S, n - 1)
         IN  shorter \cup {Append(q, x) : q \in shorter, x \in S}

indexIdle ==
    /\ pc = "idle"
    /\ args = [mes |-> None, limite |-> None, escala |-> None]
    /\ disk = <<>>
    /\ municipios = <<>>
    /\ rasters_all = <<>>
    /\ rasters = <<>>
    /\ scale_to_c = None
    /\ stats_mensais = <<>>
    /\ temp_media_anual = <<>>
    /\ output = NoOutput
    /\ err = "none"
    /\ opened = 0
    /\ zs_log = <<>>
    /\ scale_log = <<>>

InitScale ==
    /\ indexIdle /\ st = stIdle /\ cl = clIdle
    /\ \E data \in SeqsUpTo(ScaleCells, MaxCells), nodata \in ScaleNodata :
        sd = [phase |-> "call", data |-> data, nodata |-> nodata, result |-> None]

\* the call and its return value
DetectScale ==
    /\ sd.phase = "call"
    /\ sd' = [sd EXCEPT !.phase = "returned",
                        !.result = _detect_scale_from_array(sd.data, sd.nodata)]
    /\ UNCHANGED <<indexVars, st, cl>>

NextScale == DetectScale

SpecScale == InitScale /\ [][NextScale]_vars

\* the cells of the call that are finite and not equal to the nodata value
ValidCells ==
    {i \in 1..Len(sd.data) :
        /\ sd.data[i].k = "fin"
        /\ sd.nodata.k \in {"none", "nan"} \/ sd.data[i] # sd.nodata}

\* C4: the detector returns 1.0 when no cell is valid, 0.1 when some valid
\* cell is strictly greater than 80, and 1.0 otherwise.
C4_ScaleRule ==
    sd.phase = "returned" =>
        sd.result = IF ValidCells = {} THEN Q(1, 1)
                    ELSE IF \E i \in ValidCells : sd.data[i].n > 80 * sd.data[i].d
                         THEN Q(1, 10)
                    ELSE Q(1, 1)

\* a maximum of exactly 80 beside a nodata cell of 95 and an infinite cell
\* gives 1.0
C4_Witness ==
    /\ sd.phase = "returned"
    /\ sd.nodata = Fin(95)
    /\ \E i \in ValidCells : sd.data[i] = Fin(80)
    /\ \E i \in 1..Len(sd.data) : sd.data[i] \in {Fin(95), PosInf}
    /\ sd.result = Q(1, 1)

(***************************************************************************)
(* stats.py: main().  The rankings and the per-state means (lines 42-89)   *)
(* are written from df to files of their own and leave df as it is; the    *)
(* model follows df through dropna, the binning and the outlier table.     *)
(***************************************************************************)
\* rows of the input CSV
MaxRows == 5

\* the temp_media_anual values of the input CSV; NaN is an empty field
CsvTemps == {NaN, Fin(-50), Fin(16), Fin(17), Fin(21), Fin(100)}

\* line 94
bins == <<Fin(-50), Fin(15), Fin(18), Fin(21), Fin(24), Fin(27), Fin(50)>>

\* lines 29-33: read_csv and dropna; the rows keep their CSV row number
DropNa(csv) ==
    LET keep == {i \in 1..Len(csv) : ~IsNan(csv[i])}
        RECURSIVE Build(_)
        Build(i) ==
            IF i > Len(csv) THEN <<>>
            ELSE (IF i \in keep
                  THEN <<[row |-> i, temp |-> csv[i], faixa |-> 0]>>
                  ELSE <<>>) \o Build(i + 1)
    IN  Build(1)

\* pd.cut(x, bins, include_lowest=True): the number of the interval
\* (bins[b], bins[b+1]] holding x, the first one closed on the left as
\* well; 0 (no category) when x lies in none
Cut(x) ==
    LET hits == {b \in 1..(Len(bins) - 1) :
                    /\ \/ FloatLess(bins[b], x)
                       \/ b = 1 /\ x = bins[1]
                    /\ ~FloatLess(bins[b + 1], x)}
    IN  IF hits = {} THEN 0 ELSE CHOOSE b \in hits : TRUE

\* lines 111-117: value_counts of the categorical column, in category
\* order; a category without rows has count 0, rows without category are
\* not counted
ValueCounts(df) ==
    [b \in 1..(Len(bins) - 1) |-> Cardinality({i \in 1..Len(df) : df[i].faixa = b})]

\* the rows in ascending order of temp, equal values in row order
SortValues(df) ==
    LET place == [i \in 1..Len(df) |->
                    Cardinality({k \in 1..Len(df) :
                        \/ FloatLess(df[k].temp, df[i].temp)
                        \/ df[k].temp = df[i].temp /\ k < i})]
    IN  [p \in 1..Len(df) |-> df[CHOOSE i \in 1..Len(df) : place[i] = p - 1]]

\* Series.quantile(fourths / 4), linear interpolation; NaN on no rows
Quantile(df, fourths) ==
    IF Len(df) = 0 THEN NaN
    ELSE LET xs == SortValues(df)
             h == fourths * (Len(df) - 1)
             lo == h \div 4
             r == h % 4
         IN  IF r = 0 THEN xs[lo + 1].temp
             ELSE QAdd(xs[lo + 1].temp,
                       QMul(Q(r, 4),
                            QAdd(xs[lo + 2].temp, QMul(Fin(-1), xs[lo + 1].temp))))

\* the mask with <= and >=: a value on a limit counted as an outlier
IsOutlierInclusive(x, lim_inf, lim_sup) ==
    ~FloatLess(lim_inf, x) \/ ~FloatLess(x, lim_sup)

\* lines 138-139
IsOutlier(x, lim_inf, lim_sup) == FloatLess(x, lim_inf) \/ FloatLess(lim_sup, x)

\* lines 130-140
OutlierTable(df) ==
    LET q1 == Quantile(df, 1)
        q3 == Quantile(df, 3)
        iqr == QAdd(q3, QMul(Fin(-1), q1))
        lim_inf == QAdd(q1, QMul(Q(-3, 2), iqr))
        lim_sup == QAdd(q3, QMul(Q(3, 2), iqr))
    IN  IF Len(df) = 0 THEN <<>>
        ELSE SortValues(SelectSeq(df, LAMBDA row : IsOutlier(row.temp, lim_inf, lim_sup)))

InitStats ==
    /\ indexIdle /\ sd = sdIdle /\ cl = clIdle
    /\ \E csv \in SeqsUpTo(CsvTemps, MaxRows) :
        st = [phase |-> "read", csv |-> csv, df |-> <<>>, dist |-> <<>>,
              outliers |-> <<>>]

\* lines 29-33
ReadCsv ==
    /\ st.phase = "read"
    /\ st' = [st EXCEPT !.phase = "faixas", !.df = DropNa(st.csv)]
    /\ UNCHANGED <<indexVars, sd, cl>>

\* lines 94-125
Distribuicao ==
    /\ st.phase = "faixas"
    /\ LET cut == [i \in 1..Len(st.df) |->
                     [st.df[i] EXCEPT !.faixa = Cut(st.df[i].temp)]]
       IN  st' = [st EXCEPT !.phase = "outliers", !.df = cut,
                            !.dist = ValueCounts(cut)]
    /\ UNCHANGED <<indexVars, sd, cl>>

\* lines 130-148
Outliers ==
    /\ st.phase = "outliers"
    /\ st' = [st EXCEPT !.phase = "done", !.outliers = OutlierTable(st.df)]
    /\ UNCHANGED <<indexVars, sd, cl>>

NextStats ==
    \/ ReadCsv
    \/ Distribuicao
    \/ Outliers

SpecStats == InitStats /\ [][NextStats]_vars

\* the CSV rows whose annual value is not missing
NonMissing == {i \in 1..Len(st.csv) : st.csv[i].k # "nan"}

RECURSIVE SumSeq(_)
SumSeq(q) == IF q = <<>> THEN 0 ELSE Head(q) + SumSeq(Tail(q))

\* C7: once the distribution is computed it has the six bins, their counts
\* sum to the number of non-missing records, and each record lies in
\* exactly one bin.
C7_BinCountsSumToRecords ==
    st.phase \in {"outliers", "done"} =>
        /\ Len(st.dist) = 6
        /\ SumSeq(st.dist) = Cardinality(NonMissing)
        /\ \A i \in 1..Len(st.df) : st.df[i].faixa \in 1..6

\* the k-th smallest non-missing value of the CSV (whole degrees)
Kth(k) ==
    CHOOSE v \in {st.csv[i].n : i \in NonMissing} :
        /\ Cardinality({i \in NonMissing : st.csv[i].n < v}) < k
        /\ k <= Cardinality({i \in NonMissing : st.csv[i].n <= v})

\* four times the quantile fourths/4 of the non-missing values
Quantile4(fourths) ==
    LET n == Cardinality(NonMissing)
        lo == (fourths * (n - 1)) \div 4
        r == (fourths * (n - 1)) % 4
    IN  (4 - r) * Kth(lo + 1) + r * Kth(IF lo + 2 <= n THEN lo + 2 ELSE n)

\* v < Q1 - 1.5 IQR or v > Q3 + 1.5 IQR, in eighths of a degree
BeyondLimits(v) ==
    LET q1 == Quantile4(1)
        q3 == Quantile4(3)
    IN  \/ 8 * v < 2 * q1 - 3 * (q3 - q1)
        \/ 8 * v > 2 * q3 + 3 * (q3 - q1)

\* the values of section 8 of the specification
C8_Scenario ==
    <<Fin(10), Fin(12), Fin(14), Fin(16), Fin(18), Fin(20), Fin(100)>>

\* C8: the outlier table holds exactly the non-missing rows whose value is
\* strictly below Q1 - 1.5 IQR or strictly above Q3 + 1.5 IQR, each once,
\* in ascending order of value.  The scenario of the specification gives
\* the single row 100.
C8_OutliersByIqr ==
    st.phase = "done" =>
        /\ {st.outliers[a].row : a \in 1..Len(st.outliers)}
               = {i \in NonMissing : BeyondLimits(st.csv[i].n)}
        /\ \A a, b \in 1..Len(st.outliers) :
            /\ a # b => st.outliers[a].row # st.outliers[b].row
            /\ a < b => st.outliers[a].temp.n <= st.outliers[b].temp.n
        /\ \A a \in 1..Len(st.outliers) :
            st.outliers[a].temp = st.csv[st.outliers[a].row]
        /\ LET t == OutlierTable(DropNa(C8_Scenario))
           IN  Len(t) = 1 /\ t[1].temp = Fin(100) /\ t[1].row = 7

\* a table with a missing row and, among the others, exactly one outlier,
\* above the upper limit
C8_Witness ==
    /\ st.phase = "done"
    /\ NonMissing # 1..Len(st.csv)
    /\ Len(st.outliers) = 1
    /\ 8 * st.outliers[1].temp.n > 2 * Quantile4(3) + 3 * (Quantile4(3) - Quantile4(1))
    /\ Cardinality(NonMissing) > 1

(***************************************************************************)
(* clip_rasters_brasil.py: the script, top to bottom.                      *)
(***************************************************************************)
\* raster files matching INPUT_RASTERS
MaxClip == 5

\* glob.glob(INPUT_RASTERS): the files in the order the glob yields them;
\* `overlaps` tells whether the raster's extent meets the boundary
ClipInputs ==
    {[i \in 1..Len(flags) |-> [name |-> i, overlaps |-> flags[i]]] :
        flags \in SeqsUpTo(BOOLEAN, MaxClip)}

InitClip ==
    /\ indexIdle /\ sd = sdIdle /\ st = stIdle
    /\ \E rs \in ClipInputs :
        cl = [phase |-> "loop", rasters |-> rs, done |-> 0, written |-> {},
              err |-> "none"]

\* lines 19-43: one iteration; rasterio.mask.mask(..., crop=True) raises
\* ValueError when the shapes do not overlap the raster
ClipRaster ==
    /\ cl.phase = "loop"
    /\ cl.done < Len(cl.rasters)
    /\ LET src == cl.rasters[cl.done + 1]
       IN  IF src.overlaps
           THEN cl' = [cl EXCEPT !.done = cl.done + 1,
                                 !.written = cl.written \cup {src.name}]
           ELSE cl' = [cl EXCEPT !.phase = "error", !.err = "no_overlap"]
    /\ UNCHANGED <<indexVars, sd, st>>

\* line 45: the loop is exhausted, "Recorte concluido" is printed
ClipFinished ==
    /\ cl.phase = "loop"
    /\ cl.done = Len(cl.rasters)
    /\ cl' = [cl EXCEPT !.phase = "done"]
    /\ UNCHANGED <<indexVars, sd, st>>

NextClip ==
    \/ ClipRaster
    \/ ClipFinished

SpecClip == InitClip /\ [][NextClip]_vars

\* C6: a run that ends with an input-shape error has written no output
\* file, and a clipping run over no raster at all does not end as a
\* success.
C6_NoPartialOutput ==
    /\ cl.phase = "error" => cl.written = {}
    /\ cl.phase = "done" => cl.rasters # <<>>
    /\ pc = "error" => ~output.written

====
